---- MODULE Spec2Model ----
(***************************************************************************)
(* A model of cmdl_interpreter.py: parse_lines (indentation -> tree), the  *)
(* label index built by Interpreter.__init__, and the execution engine     *)
(* run / run_stmt_list / run_node with its tagged results.                 *)
(*                                                                         *)
(* Python lists are heap objects with identity (the parser's stack and the *)
(* label table alias them), so the tree is kept as a heap: `lists` maps a  *)
(* list id to its sequence of node ids, `nodes` maps a node id to the      *)
(* node's dict.  List 1 is root.  Indices into lists (idx, target_index)   *)
(* are 0-based as in the source.  Source text is kept as text: a script is *)
(* a sequence of lines, each line a string.                                *)
(***************************************************************************)
EXTENDS Integers, Sequences, FiniteSets, TLC

VARIABLES lines, pi, stack, nodes, lists, pc, vars, labels,
          cur_list, idx, steps, frames, ret, trace

parser_vars == <<pi, stack, nodes, lists>>
run_vars == <<vars, cur_list, idx, steps, frames, ret, trace>>
all_vars == <<lines, pi, stack, nodes, lists, pc, vars, labels,
              cur_list, idx, steps, frames, ret, trace>>

(***************************************************************************)
(* Bounds of the model.                                                    *)
(***************************************************************************)
\* length of the exhaustively enumerated scripts
MaxLines == 3
\* entries of the execution trace that are recorded; later ones are dropped
MaxTrace == 12

(***************************************************************************)
(* Text.  TLC gives Len, SubSeq and \o on strings; a character is a string *)
(* of length one.                                                          *)
(***************************************************************************)
\* s[a-1:b] clamped to the text, as Python slices are
Sub(s, a, b) ==
    LET lo == IF a < 1 THEN 1 ELSE a
        hi == IF b > Len(s) THEN Len(s) ELSE b
    IN  IF lo > hi THEN "" ELSE SubSeq(s, lo, hi)
\* the character at i, "" outside the text
Char(s, i) == Sub(s, i, i)
CharsOf(s) == {Char(s, i) : i \in 1..Len(s)}
From(s, i) == Sub(s, i, Len(s))

LowerAlphabet == "abcdefghijklmnopqrstuvwxyz"
UpperAlphabet == "ABCDEFGHIJKLMNOPQRSTUVWXYZ"
DigitAlphabet == "0123456789"
Letters == CharsOf(LowerAlphabet) \cup CharsOf(UpperAlphabet) \cup {"_"}
Digits == CharsOf(DigitAlphabet)
\* the regex class \w
WordChars == Letters \cup Digits
\* the regex class \s and the characters str.strip() removes
WS == {" ", "\t"}

\* the first index q >= p with s[q] not in C (Len(s)+1 when there is none)
SkipWhile(s, p, C) ==
    CHOOSE q \in p..(Len(s) + 1) :
        /\ \A j \in p..(q - 1) : Char(s, j) \in C
        /\ (q = Len(s) + 1 \/ Char(s, q) \notin C)

\* the last index q with s[q] not in C (0 when there is none)
LastNotIn(s, C) ==
    CHOOSE q \in 0..Len(s) :
        /\ \A j \in (q + 1)..Len(s) : Char(s, j) \in C
        /\ (q = 0 \/ Char(s, q) \notin C)

LStrip(s) == From(s, SkipWhile(s, 1, WS))
RStrip(s) == Sub(s, 1, LastNotIn(s, WS))
Strip(s) == RStrip(LStrip(s))

StartsWith(s, pre) == Len(s) >= Len(pre) /\ Sub(s, 1, Len(pre)) = pre
EndsWith(s, suf) ==
    Len(s) >= Len(suf) /\ Sub(s, Len(s) - Len(suf) + 1, Len(s)) = suf
AllWS(s) == \A j \in 1..Len(s) : Char(s, j) \in WS

\* the first index q >= p with s[q] = c (0 when there is none)
Find(s, p, c) ==
    IF \E q \in p..Len(s) : Char(s, q) = c
    THEN CHOOSE q \in p..Len(s) :
             Char(s, q) = c /\ \A j \in p..(q - 1) : Char(s, j) # c
    ELSE 0

\* the end (exclusive) of the match of [A-Za-z_]\w* at p; p when no match
IdentEnd(s, p) ==
    IF p <= Len(s) /\ Char(s, p) \in Letters
    THEN SkipWhile(s, p + 1, WordChars)
    ELSE p

\* Python's Optional[str]: None is <<>>, a string s is <<s>>
None == <<>>
Some(s) == <<s>>

(***************************************************************************)
(* parse_lines: the classification of one line.                            *)
(***************************************************************************)
INDENT_UNIT == 4

indent_level(line) ==
    IF StartsWith(line, "\t")
    THEN SkipWhile(line, 1, {"\t"}) - 1
    ELSE (SkipWhile(line, 1, {" "}) - 1) \div INDENT_UNIT

\* raw.strip() == "" or raw.strip().startswith("#")
IsSkipped(raw) == Strip(raw) = "" \/ StartsWith(Strip(raw), "#")

\* ^([A-Za-z_]\w*)\(\):\s*$  -- the label's name, or None
m_label(s) ==
    LET e == IdentEnd(s, 1)
    IN  IF e > 1 /\ Sub(s, e, e + 2) = "():" /\ AllWS(From(s, e + 3))
        THEN Some(Sub(s, 1, e - 1))
        ELSE None

\* ^loop(?:\(([^)]*)\))?:\s*$  -- [m: whether it matches, param: group 1]
m_loop(s) ==
    LET q == Find(s, 6, ")")
    IN  IF ~StartsWith(s, "loop") THEN [m |-> FALSE, param |-> None]
        ELSE IF /\ Char(s, 5) = "("
                /\ q > 0
                /\ Char(s, q + 1) = ":"
                /\ AllWS(From(s, q + 2))
        THEN [m |-> TRUE, param |-> Some(Sub(s, 6, q - 1))]
        ELSE IF Char(s, 5) = ":" /\ AllWS(From(s, 6))
        THEN [m |-> TRUE, param |-> None]
        ELSE [m |-> FALSE, param |-> None]

\* param.strip() if param else None
LoopParam(p) == IF p = None \/ p[1] = "" THEN None ELSE Some(Strip(p[1]))

\* ^(if|elif)\s+(.+?):\s*$  -- [m, kind: group 1, cond: group 2 stripped]
m_if(s) ==
    LET kw == IF StartsWith(s, "if") THEN "if"
              ELSE IF StartsWith(s, "elif") THEN "elif" ELSE ""
        k == Len(kw) + 1
        c == LastNotIn(s, WS)
    IN  IF /\ kw # ""
           /\ k <= Len(s) /\ Char(s, k) \in WS
           /\ c >= k + 2 /\ Char(s, c) = ":"
        THEN [m |-> TRUE, kind |-> kw, cond |-> Strip(Sub(s, k, c - 1))]
        ELSE [m |-> FALSE, kind |-> "", cond |-> ""]

\* ^else:\s*$
m_else(s) == StartsWith(s, "else:") /\ AllWS(From(s, 6))

(***************************************************************************)
(* The tree.  A node dict is a record with every key; a key the dict does  *)
(* not have holds 0 (children), <<>> (parts), None or "".                  *)
(***************************************************************************)
Node(type, kind, cond, name, param, raw, children, parts, parent) ==
    [type |-> type, kind |-> kind, cond |-> cond, name |-> name,
     param |-> param, raw |-> raw, children |-> children, parts |-> parts,
     parent |-> parent]

\* while ind <= stack[-1][0] and len(stack) > 1: stack.pop()
RECURSIVE PopStack(_, _)
PopStack(st, ind) ==
    IF ind <= st[Len(st)][1] /\ Len(st) > 1
    THEN PopStack(SubSeq(st, 1, Len(st) - 1), ind)
    ELSE st

\* for n in reversed(cur_list): if n.get("type") == "if": found = n; break
\* -- the node id found, 0 when none
FindIf(lst) ==
    IF \E j \in 1..Len(lst) : nodes[lst[j]].type = "if"
    THEN lst[CHOOSE j \in 1..Len(lst) :
                 /\ nodes[lst[j]].type = "if"
                 /\ \A k \in (j + 1)..Len(lst) : nodes[lst[k]].type # "if"]
    ELSE 0

\* the line parse_lines is at, and the loop's locals for it
CurRaw == lines[pi + 1]
CurInd == indent_level(CurRaw)
CurStack == PopStack(stack, CurInd)
CurList == CurStack[Len(CurStack)][2]
Stripped == LStrip(CurRaw)
NewNode == Len(nodes) + 1
NewList == Len(lists) + 1

AtLine == pc = "parse" /\ pi < Len(lines)
AppendTo(ls, l, n) == [ls EXCEPT ![l] = Append(@, n)]

\* lines 111-113: blank lines and comments are skipped
ParseBlank ==
    /\ AtLine
    /\ IsSkipped(CurRaw)
    /\ pi' = pi + 1
    /\ UNCHANGED <<lines, stack, nodes, lists, pc, labels>>
    /\ UNCHANGED run_vars

\* lines 119-124
ParseLabel ==
    /\ AtLine
    /\ ~IsSkipped(CurRaw)
    /\ m_label(Stripped) # None
    /\ nodes' = Append(nodes, Node("label", "", None, m_label(Stripped)[1],
                                   None, Stripped, NewList, <<>>, CurList))
    /\ lists' = Append(AppendTo(lists, CurList, NewNode), <<>>)
    /\ stack' = CurStack
    /\ pi' = pi + 1
    /\ UNCHANGED <<lines, pc, labels>>
    /\ UNCHANGED run_vars

\* lines 125-132
ParseLoop ==
    /\ AtLine
    /\ ~IsSkipped(CurRaw)
    /\ m_label(Stripped) = None
    /\ m_loop(Stripped).m
    /\ nodes' = Append(nodes, Node("loop", "", None, "",
                                   LoopParam(m_loop(Stripped).param),
                                   Stripped, NewList, <<>>, CurList))
    /\ lists' = Append(AppendTo(lists, CurList, NewNode), <<>>)
    /\ stack' = Append(CurStack, <<CurInd, NewList>>)
    /\ pi' = pi + 1
    /\ UNCHANGED <<lines, pc, labels>>
    /\ UNCHANGED run_vars

\* lines 133-155: an `if` opens a wrapper; an `elif` is attached to the
\* nearest "if" node of the current list, or appended bare when there is none
ParseIf ==
    /\ AtLine
    /\ ~IsSkipped(CurRaw)
    /\ m_label(Stripped) = None
    /\ ~m_loop(Stripped).m
    /\ m_if(Stripped).m
    /\ LET m == m_if(Stripped)
           node == Node("ifpart", m.kind, Some(m.cond), "", None, Stripped,
                        NewList, <<>>, CurList)
           wrapper == Node("if", "", None, "", None, Stripped, 0,
                           <<NewNode>>, CurList)
           found == FindIf(lists[CurList])
       IN  IF m.kind = "if"
           THEN /\ nodes' = nodes \o <<node, wrapper>>
                /\ lists' = Append(AppendTo(lists, CurList, NewNode + 1), <<>>)
                /\ stack' = Append(CurStack, <<CurInd, NewList>>)
           ELSE IF found = 0
           THEN /\ nodes' = Append(nodes, node)
                /\ lists' = Append(AppendTo(lists, CurList, NewNode), <<>>)
                /\ stack' = CurStack
           ELSE /\ nodes' = Append([nodes EXCEPT ![found].parts =
                                                     Append(@, NewNode)], node)
                /\ lists' = Append(lists, <<>>)
                /\ stack' = Append(CurStack, <<CurInd, NewList>>)
    /\ pi' = pi + 1
    /\ UNCHANGED <<lines, pc, labels>>
    /\ UNCHANGED run_vars

\* lines 156-168
ParseElse ==
    /\ AtLine
    /\ ~IsSkipped(CurRaw)
    /\ m_label(Stripped) = None
    /\ ~m_loop(Stripped).m
    /\ ~m_if(Stripped).m
    /\ m_else(Stripped)
    /\ LET node == Node("ifpart", "else", None, "", None, Stripped,
                        NewList, <<>>, CurList)
           found == FindIf(lists[CurList])
       IN  IF found = 0
           THEN /\ nodes' = Append(nodes, node)
                /\ lists' = Append(AppendTo(lists, CurList, NewNode), <<>>)
                /\ stack' = CurStack
           ELSE /\ nodes' = Append([nodes EXCEPT ![found].parts =
                                                     Append(@, NewNode)], node)
                /\ lists' = Append(lists, <<>>)
                /\ stack' = Append(CurStack, <<CurInd, NewList>>)
    /\ pi' = pi + 1
    /\ UNCHANGED <<lines, pc, labels>>
    /\ UNCHANGED run_vars

\* lines 169-171
ParseStmt ==
    /\ AtLine
    /\ ~IsSkipped(CurRaw)
    /\ m_label(Stripped) = None
    /\ ~m_loop(Stripped).m
    /\ ~m_if(Stripped).m
    /\ ~m_else(Stripped)
    /\ nodes' = Append(nodes, Node("stmt", "", None, "", None, Stripped, 0,
                                   <<>>, CurList))
    /\ lists' = AppendTo(lists, CurList, NewNode)
    /\ stack' = CurStack
    /\ pi' = pi + 1
    /\ UNCHANGED <<lines, pc, labels>>
    /\ UNCHANGED run_vars


(***************************************************************************)
(* Python values.  The store holds int, str and bool values (the scripts   *)
(* of this model contain no '.', exponent, "inf" or "nan", so no float     *)
(* arises).  A value is [t, i, s]: i holds an int or a bool (1/0), s a str.*)
(***************************************************************************)
V_Int(n) == [t |-> "int", i |-> n, s |-> ""]
V_Str(x) == [t |-> "str", i |-> 0, s |-> x]
V_Bool(b) == [t |-> "bool", i |-> IF b THEN 1 ELSE 0, s |-> ""]

\* bool(v)
Truthy(v) == IF v.t = "str" THEN v.s # "" ELSE v.i # 0

DigitVal(c) == CHOOSE d \in 0..9 : Char(DigitAlphabet, d + 1) = c

RECURSIVE NatToStr(_)
NatToStr(n) ==
    IF n < 10 THEN Char(DigitAlphabet, n + 1)
    ELSE NatToStr(n \div 10) \o Char(DigitAlphabet, (n % 10) + 1)

RECURSIVE DigitsToNat(_)
DigitsToNat(s) ==
    IF s = "" THEN 0
    ELSE 10 * DigitsToNat(Sub(s, 1, Len(s) - 1)) + DigitVal(Char(s, Len(s)))

\* str(v)
PyStr(v) ==
    IF v.t = "str" THEN v.s
    ELSE IF v.t = "bool" THEN (IF v.i = 1 THEN "True" ELSE "False")
    ELSE IF v.i < 0 THEN "-" \o NatToStr(0 - v.i) ELSE NatToStr(v.i)

RECURSIVE EscapeQuote(_)
EscapeQuote(s) ==
    IF s = "" THEN ""
    ELSE (IF Char(s, 1) = "'" THEN "\\'" ELSE Char(s, 1))
             \o EscapeQuote(From(s, 2))

\* repr(v) of a str without backslashes: single quotes, unless the text
\* holds a single quote and no double quote
PyRepr(x) ==
    IF "'" \in CharsOf(x) /\ "\"" \notin CharsOf(x)
    THEN "\"" \o x \o "\""
    ELSE "'" \o EscapeQuote(x) \o "'"

\* an optional sign and one or more digits, whitespace around it ignored
IsIntText(s) ==
    LET t == Strip(s)
        d == IF Char(t, 1) \in {"+", "-"} THEN From(t, 2) ELSE t
    IN  d # "" /\ CharsOf(d) \subseteq Digits

\* lines 21-26, on a str: float(s) succeeds
is_number(s) == IsIntText(s)

\* lines 28-34, on a str that is_number accepts: int(s)
to_number(s) ==
    LET t == Strip(s)
    IN  IF Char(t, 1) = "-" THEN 0 - DigitsToNat(From(t, 2))
        ELSE IF Char(t, 1) = "+" THEN DigitsToNat(From(t, 2))
        ELSE DigitsToNat(t)

\* (s.startswith('"') and s.endswith('"')) or
\* (s.startswith("'") and s.endswith("'"))
IsQuoted(s) ==
    \/ (StartsWith(s, "\"") /\ EndsWith(s, "\""))
    \/ (StartsWith(s, "'") /\ EndsWith(s, "'"))

\* s[1:-1]
Unquote(s) == Sub(s, 2, Len(s) - 1)

(***************************************************************************)
(* eval(text, {"__builtins__": None}, {}) on the expressions of this       *)
(* model: integer and string literals, True/False, + - *, comparisons,     *)
(* and/or/not and parentheses.  The result is [k, v] with k = "ok" (v the  *)
(* value), "err" (Python raises) or "unsupported" (outside this fragment). *)
(***************************************************************************)
Tok(k, i, s) == [k |-> k, i |-> i, s |-> s]
Keywords == {"and", "or", "not", "True", "False"}

\* the index of the quote closing a string literal opened before p (0 when
\* the literal is not closed); a backslash escapes the next character
RECURSIVE StrEnd(_, _, _)
StrEnd(s, p, q) ==
    IF p > Len(s) THEN 0
    ELSE IF Char(s, p) = "\\" THEN StrEnd(s, p + 2, q)
    ELSE IF Char(s, p) = q THEN p
    ELSE StrEnd(s, p + 1, q)

\* the text of a string literal's body: \x stands for x (x a quote or \)
RECURSIVE Unescape(_)
Unescape(s) ==
    IF s = "" THEN ""
    ELSE IF Char(s, 1) = "\\" THEN Char(s, 2) \o Unescape(From(s, 3))
    ELSE Char(s, 1) \o Unescape(From(s, 2))

\* [k, toks]: the tokens of s from p on, after acc
RECURSIVE Lex(_, _, _)
Lex(s, p, acc) ==
    LET c == Char(s, p)
        c2 == Sub(s, p, p + 1)
        de == SkipWhile(s, p, Digits)
        ie == IdentEnd(s, p)
        se == StrEnd(s, p + 1, c)
        num == Sub(s, p, de - 1)
        word == Sub(s, p, ie - 1)
    IN  IF p > Len(s) THEN [k |-> "ok", toks |-> acc]
        ELSE IF c \in WS THEN Lex(s, p + 1, acc)
        ELSE IF c \in Digits
        THEN IF Char(s, de) \in Letters \cup {"."}
             THEN [k |-> "unsupported", toks |-> acc]
             ELSE IF Len(num) > 1 /\ Char(num, 1) = "0" /\ CharsOf(num) # {"0"}
             THEN [k |-> "err", toks |-> acc]
             ELSE Lex(s, de, Append(acc, Tok("num", DigitsToNat(num), "")))
        ELSE IF c \in Letters
        THEN IF word \in Keywords
             THEN Lex(s, ie, Append(acc, Tok("kw", 0, word)))
             ELSE [k |-> "unsupported", toks |-> acc]
        ELSE IF c \in {"'", "\""}
        THEN IF se = 0 THEN [k |-> "err", toks |-> acc]
             ELSE IF se = p + 1 /\ Char(s, p + 2) = c
             THEN [k |-> "unsupported", toks |-> acc]
             ELSE IF \E j \in (p + 1)..(se - 1) :
                         Char(s, j) = "\\" /\ Char(s, j + 1) \notin {"'", "\"", "\\"}
             THEN [k |-> "unsupported", toks |-> acc]
             ELSE Lex(s, se + 1,
                      Append(acc, Tok("str", 0, Unescape(Sub(s, p + 1, se - 1)))))
        ELSE IF c2 \in {"==", "!=", "<=", ">="}
        THEN Lex(s, p + 2, Append(acc, Tok("op", 0, c2)))
        ELSE IF c2 = "**" \/ (c = "(" /\ Char(s, SkipWhile(s, p + 1, WS)) = ")")
        THEN [k |-> "unsupported", toks |-> acc]
        ELSE IF c \in {"+", "-", "*", "(", ")", "<", ">"}
        THEN Lex(s, p + 1, Append(acc, Tok("op", 0, c)))
        ELSE IF c \in {"=", "!"} THEN [k |-> "err", toks |-> acc]
        ELSE [k |-> "unsupported", toks |-> acc]


Peek(ts, p) == IF p <= Len(ts) THEN ts[p] ELSE Tok("eof", 0, "")
IsOp(t, ops) == t.k = "op" /\ t.s \in ops
IsKw(t, w) == t.k = "kw" /\ t.s = w

Lit(v) == [n |-> "lit", v |-> v]
Un(op, a) == [n |-> "un", op |-> op, a |-> a]
Bin(op, a, b) == [n |-> "bin", op |-> op, a |-> a, b |-> b]
Cmp(a, ops, xs) == [n |-> "cmp", a |-> a, ops |-> ops, xs |-> xs]
Parsed(ast, p) == [ok |-> TRUE, ast |-> ast, p |-> p]
PFail == [ok |-> FALSE, ast |-> <<>>, p |-> 0]
CmpOps == {"==", "!=", "<", ">", "<=", ">="}

\* Python's expression grammar, one rule per value of `rule`:
\*   or_test: and_test ('or' and_test)*      and_test: not_test ('and' not_test)*
\*   not_test: 'not' not_test | comparison   comparison: arith (op arith)*
\*   arith: term (('+'|'-') term)*           term: factor ('*' factor)*
\*   factor: ('+'|'-') factor | atom         atom: NUM | STR+ | True | False | '(' or_test ')'
\* A "rest" rule continues its rule after the operand acc.
RECURSIVE Parse(_, _, _, _)
Parse(rule, ts, p, acc) ==
    LET t == Peek(ts, p)
        lower == CASE rule \in {"or", "orRest"} -> "and"
                   [] rule \in {"and", "andRest"} -> "not"
                   [] rule \in {"cmp", "cmpRest", "not"} -> "arith"
                   [] rule \in {"arith", "arithRest"} -> "term"
                   [] OTHER -> "factor"
        ops == CASE rule = "orRest" -> {"or"}
                 [] rule = "andRest" -> {"and"}
                 [] rule = "arithRest" -> {"+", "-"}
                 [] OTHER -> {"*"}
        l == Parse(lower, ts, p, <<>>)
        r == Parse(lower, ts, p + 1, <<>>)
        n == Parse("not", ts, p + 1, <<>>)
        f == Parse("factor", ts, p + 1, <<>>)
        inner == Parse("or", ts, p + 1, <<>>)
    IN  IF rule \in {"or", "and", "arith", "term"}
        THEN IF l.ok THEN Parse(rule \o "Rest", ts, l.p, l.ast) ELSE PFail
        ELSE IF rule \in {"orRest", "andRest", "arithRest", "termRest"}
        THEN IF t.k \in {"op", "kw"} /\ t.s \in ops
             THEN IF r.ok THEN Parse(rule, ts, r.p, Bin(t.s, acc, r.ast))
                  ELSE PFail
             ELSE Parsed(acc, p)
        ELSE IF rule = "not"
        THEN IF IsKw(t, "not")
             THEN IF n.ok THEN Parsed(Un("not", n.ast), n.p) ELSE PFail
             ELSE Parse("cmp", ts, p, <<>>)
        ELSE IF rule = "cmp"
        THEN IF l.ok THEN Parse("cmpRest", ts, l.p, Cmp(l.ast, <<>>, <<>>))
             ELSE PFail
        ELSE IF rule = "cmpRest"
        THEN IF IsOp(t, CmpOps)
             THEN IF r.ok
                  THEN Parse("cmpRest", ts, r.p,
                             Cmp(acc.a, Append(acc.ops, t.s), Append(acc.xs, r.ast)))
                  ELSE PFail
             ELSE Parsed(IF acc.ops = <<>> THEN acc.a ELSE acc, p)
        ELSE IF rule = "factor"
        THEN IF IsOp(t, {"+", "-"})
             THEN IF f.ok THEN Parsed(Un(t.s, f.ast), f.p) ELSE PFail
             ELSE Parse("atom", ts, p, <<>>)
        ELSE IF rule = "atom"
        THEN IF t.k = "num" THEN Parsed(Lit(V_Int(t.i)), p + 1)
             ELSE IF t.k = "kw" /\ t.s \in {"True", "False"}
             THEN Parsed(Lit(V_Bool(t.s = "True")), p + 1)
             ELSE IF t.k = "str" THEN Parse("strs", ts, p, "")
             ELSE IF IsOp(t, {"("})
             THEN IF inner.ok /\ IsOp(Peek(ts, inner.p), {")"})
                  THEN Parsed(inner.ast, inner.p + 1) ELSE PFail
             ELSE PFail
        ELSE \* "strs": adjacent string literals are one literal
             IF t.k = "str" THEN Parse("strs", ts, p + 1, acc \o t.s)
             ELSE Parsed(Lit(V_Str(acc)), p)

Ok(v) == [k |-> "ok", v |-> v]
Err == [k |-> "err", v |-> V_Int(0)]
Unsupported == [k |-> "unsupported", v |-> V_Int(0)]
IsNum(v) == v.t \in {"int", "bool"}

\* a == b
PyEq(a, b) ==
    IF IsNum(a) /\ IsNum(b) THEN a.i = b.i
    ELSE IF a.t = "str" /\ b.t = "str" THEN a.s = b.s
    ELSE FALSE

\* one comparison a op b
Compare(op, a, b) ==
    IF op = "==" THEN Ok(V_Bool(PyEq(a, b)))
    ELSE IF op = "!=" THEN Ok(V_Bool(~PyEq(a, b)))
    ELSE IF IsNum(a) /\ IsNum(b)
    THEN Ok(V_Bool(CASE op = "<" -> a.i < b.i
                     [] op = ">" -> a.i > b.i
                     [] op = "<=" -> a.i <= b.i
                     [] OTHER -> a.i >= b.i))
    ELSE IF a.t = "str" /\ b.t = "str" THEN Unsupported
    ELSE Err

\* a op b for + - *
Arith(op, a, b) ==
    IF IsNum(a) /\ IsNum(b)
    THEN Ok(V_Int(CASE op = "+" -> a.i + b.i
                    [] op = "-" -> a.i - b.i
                    [] OTHER -> a.i * b.i))
    ELSE IF op = "+" /\ a.t = "str" /\ b.t = "str" THEN Ok(V_Str(a.s \o b.s))
    ELSE IF op = "*" /\ (IsNum(a) \/ IsNum(b)) THEN Unsupported
    ELSE Err

RECURSIVE Eval(_), EvalCmp(_, _, _, _)
Eval(ast) ==
    IF ast.n = "lit" THEN Ok(ast.v)
    ELSE IF ast.n = "un"
    THEN LET ea == Eval(ast.a)
         IN  IF ea.k # "ok" THEN ea
             ELSE IF ast.op = "not" THEN Ok(V_Bool(~Truthy(ea.v)))
             ELSE IF ~IsNum(ea.v) THEN Err
             ELSE Ok(V_Int(IF ast.op = "-" THEN 0 - ea.v.i ELSE ea.v.i))
    ELSE IF ast.n = "bin" /\ ast.op \in {"and", "or"}
    THEN LET ea == Eval(ast.a)
         IN  IF ea.k # "ok" THEN ea
             ELSE IF Truthy(ea.v) = (ast.op = "or") THEN ea
             ELSE Eval(ast.b)
    ELSE IF ast.n = "bin"
    THEN LET ea == Eval(ast.a)
             eb == Eval(ast.b)
         IN  IF ea.k # "ok" THEN ea
             ELSE IF eb.k # "ok" THEN eb
             ELSE Arith(ast.op, ea.v, eb.v)
    ELSE LET ea == Eval(ast.a)
         IN  IF ea.k # "ok" THEN ea ELSE EvalCmp(ea.v, ast.ops, ast.xs, 1)
\* a chained comparison: left op_j x_j and x_j op_j+1 x_j+1 ..., stopping
\* at the first one that is false
EvalCmp(left, ops, xs, j) ==
    LET eb == Eval(xs[j])
        c == Compare(ops[j], left, eb.v)
    IN  IF eb.k # "ok" THEN eb
        ELSE IF c.k # "ok" \/ ~Truthy(c.v) \/ j = Len(ops) THEN c
        ELSE EvalCmp(eb.v, ops, xs, j + 1)

\* the value of a parse that has to end at token `last`
EvalParsed(pr, last) == IF ~pr.ok \/ pr.p # last + 1 THEN Err ELSE Eval(pr.ast)
EvalTokens(lx) ==
    IF lx.k # "ok" THEN [k |-> lx.k, v |-> V_Int(0)]
    ELSE EvalParsed(Parse("or", lx.toks, 1, <<>>), Len(lx.toks))
PyEval(text) == EvalTokens(Lex(text, 1, <<>>))

(***************************************************************************)
(* Variable substitution.  re.sub(r'\b[A-Za-z_]\w*\b', f, text) replaces   *)
(* every maximal run of word characters that starts with a letter or an    *)
(* underscore; a run that starts with a digit is left as it is.            *)
(***************************************************************************)
Has(vs, name) == name \in DOMAIN vs

\* lines 205-216: the replacement eval_expr makes
repl_var(name, vs) ==
    IF name \in {"and", "or", "not"} THEN name
    ELSE IF Has(vs, name)
    THEN IF vs[name].t = "str" /\ is_number(vs[name].s) THEN vs[name].s
         ELSE IF IsNum(vs[name]) THEN PyStr(vs[name])
         ELSE PyRepr(vs[name].s)
    ELSE "0"

\* lines 378-385: the replacement a condition makes
rv(name, vs) ==
    IF Has(vs, name)
    THEN IF vs[name].t = "str" THEN PyRepr(vs[name].s) ELSE PyStr(vs[name])
    ELSE "0"

RECURSIVE SubstVars(_, _, _, _)
SubstVars(s, p, vs, mode) ==
    LET c == Char(s, p)
        e == SkipWhile(s, p, WordChars)
        name == Sub(s, p, e - 1)
    IN  IF p > Len(s) THEN ""
        ELSE IF c \in Letters
        THEN (IF mode = "expr" THEN repl_var(name, vs) ELSE rv(name, vs))
                 \o SubstVars(s, e, vs, mode)
        ELSE IF c \in Digits THEN name \o SubstVars(s, e, vs, mode)
        ELSE c \o SubstVars(s, p + 1, vs, mode)

\* lines 204-221: the value, or "err" for RuntimeErrorInter("Bad expression")
eval_expr(expr, vs) == PyEval(SubstVars(expr, 1, vs, "expr"))

\* line 377: re.sub(r'(?<![=!<>])\s=\s(?!=)', '==', cond)
RECURSIVE NormalizeEq(_, _)
NormalizeEq(s, p) ==
    IF p > Len(s) THEN ""
    ELSE IF /\ Char(s, p) \in WS
            /\ Char(s, p + 1) = "="
            /\ Char(s, p + 2) \in WS
            /\ Char(s, p - 1) \notin {"=", "!", "<", ">"}
            /\ Char(s, p + 3) # "="
    THEN "==" \o NormalizeEq(s, p + 3)
    ELSE Char(s, p) \o NormalizeEq(s, p + 1)

\* lines 374-389: the condition's truth value, k = "err" for "Bad condition"
AsBool(r) == IF r.k = "ok" THEN Ok(V_Bool(Truthy(r.v))) ELSE r
eval_cond(cond, vs) ==
    AsBool(PyEval(SubstVars(NormalizeEq(cond, 1), 1, vs, "cond")))


(***************************************************************************)
(* Results.  run_node returns None, {"action": "goto", "label": L}, a goto *)
(* carrying a jump ({"action": "goto", "label": None, "jump": r}) or       *)
(* {"action": "return_to_caller"}; run_stmt_list returns ("jump", parent,  *)
(* idx), ("done",) or ("return",).  NoRet: no call has just returned.      *)
(***************************************************************************)
Result(k, label, lst, i) == [k |-> k, label |-> label, lst |-> lst, idx |-> i]
NoRet == Result("", None, 0, 0)
RNone == Result("none", None, 0, 0)
RGoto(label) == Result("goto", Some(label), 0, 0)
RGotoJump(lst, i) == Result("goto", None, lst, i)
RReturn == Result("return_to_caller", None, 0, 0)
LJump(lst, i) == Result("jump", None, lst, i)
LDone == Result("done", None, 0, 0)
LReturn == Result("return", None, 0, 0)
NodeResults == {"none", "goto", "return_to_caller"}
ListResults == {"jump", "done", "return"}

(***************************************************************************)
(* run_node on a statement.                                                *)
(***************************************************************************)
\* line 256: ^([A-Za-z_]\w*)(?:\(([^)]*)\))?(?:\s+(.*))?$
\* -- [m, cmd: group 1, paren: group 2, rest: group 3]
stmt_match(raw) ==
    LET e == IdentEnd(raw, 1)
        q == Find(raw, e + 1, ")")
        group == /\ Char(raw, e) = "("
                 /\ q > 0
                 /\ (q = Len(raw) \/ Char(raw, q + 1) \in WS)
        a == IF group THEN q + 1 ELSE e
        paren == IF group THEN Some(Sub(raw, e + 1, q - 1)) ELSE None
    IN  IF e > 1 /\ a > Len(raw)
        THEN [m |-> TRUE, cmd |-> Sub(raw, 1, e - 1), paren |-> paren,
              rest |-> None]
        ELSE IF e > 1 /\ Char(raw, a) \in WS
        THEN [m |-> TRUE, cmd |-> Sub(raw, 1, e - 1), paren |-> paren,
              rest |-> Some(From(raw, SkipWhile(raw, a, WS)))]
        ELSE [m |-> FALSE, cmd |-> "", paren |-> None, rest |-> None]

LowerChar(c) ==
    IF c \in CharsOf(UpperAlphabet)
    THEN Char(LowerAlphabet,
              CHOOSE j \in 1..Len(UpperAlphabet) : Char(UpperAlphabet, j) = c)
    ELSE c
RECURSIVE Lower(_)
Lower(s) == IF s = "" THEN "" ELSE LowerChar(Char(s, 1)) \o Lower(From(s, 2))

\* lines 260-263: the argument text handed to the command
StmtArgs(m) ==
    LET rest == IF m.rest = None THEN "" ELSE m.rest[1]
    IN  IF m.paren # None /\ m.paren[1] # "" /\ Strip(rest) = ""
        THEN m.paren[1]
        ELSE rest

\* lines 68-97
RECURSIVE tokenize_text_args(_, _, _, _, _)
tokenize_text_args(argstr, i, cur, quote, parts) ==
    LET ch == Char(argstr, i)
    IN  IF i > Len(argstr)
        THEN IF Strip(cur) # "" THEN Append(parts, Strip(cur)) ELSE parts
        ELSE IF quote # ""
        THEN tokenize_text_args(argstr, i + 1, cur \o ch,
                                IF ch = quote THEN "" ELSE quote, parts)
        ELSE IF ch \in {"\"", "'"}
        THEN tokenize_text_args(argstr, i + 1, cur \o ch, ch, parts)
        ELSE IF ch = ","
        THEN tokenize_text_args(argstr, i + 1, "", "", Append(parts, Strip(cur)))
        ELSE tokenize_text_args(argstr, i + 1, cur \o ch, "", parts)

\* lines 266-276: the line `text` prints
RECURSIVE JoinParts(_, _, _)
JoinParts(parts, j, vs) ==
    IF j > Len(parts) THEN ""
    ELSE LET p == Strip(parts[j])
             piece == IF p = "" THEN ""
                      ELSE IF IsQuoted(p) THEN Unquote(p)
                      ELSE IF Has(vs, p) THEN PyStr(vs[p])
                      ELSE ""
         IN  piece \o JoinParts(parts, j + 1, vs)

\* ^([A-Za-z_]\w*)\s*=\s*(.+)$  -- [m, name: group 1, val: group 2]
assign_match(rest) ==
    LET e == IdentEnd(rest, 1)
        w == SkipWhile(rest, e, WS)
        v == SkipWhile(rest, w + 1, WS)
    IN  IF e > 1 /\ Char(rest, w) = "=" /\ w < Len(rest)
        THEN [m |-> TRUE, name |-> Sub(rest, 1, e - 1),
              val |-> IF v <= Len(rest) THEN From(rest, v)
                      ELSE Char(rest, Len(rest))]
        ELSE [m |-> FALSE, name |-> "", val |-> ""]

Store(vs, name, v) ==
    [n \in DOMAIN vs \cup {name} |-> IF n = name THEN v ELSE vs[n]]

\* re.search(r'[\+\-\*/()]', val_raw)
HasOperator(s) == CharsOf(s) \cap {"+", "-", "*", "/", "(", ")"} # {}

\* the outcome of one statement: the result run_node returns, the store,
\* the effect on the terminal (eff, text), and st: "ok", "exit", or the
\* exception raised
Outcome(res, vs, eff, text, st) ==
    [res |-> res, vars |-> vs, eff |-> eff, text |-> text, st |-> st]
Raise(vs, st) == Outcome(RNone, vs, "", "", st)

\* the store after `name = v`, or the exception the evaluation raised
StoreEval(vs, name, v) ==
    IF v.k = "ok" THEN Outcome(RNone, Store(vs, name, v.v), "", "", "ok")
    ELSE Raise(vs, IF v.k = "err" THEN "error: bad expression"
                   ELSE "unsupported")

\* lines 285-294
SetValue(name, val_raw, vs) ==
    IF IsQuoted(val_raw)
    THEN StoreEval(vs, name, Ok(V_Str(Unquote(val_raw))))
    ELSE IF is_number(val_raw)
    THEN StoreEval(vs, name, Ok(V_Int(to_number(val_raw))))
    ELSE IF HasOperator(val_raw)
    THEN StoreEval(vs, name, eval_expr(val_raw, vs))
    ELSE StoreEval(vs, name,
                   Ok(IF Has(vs, val_raw) THEN vs[val_raw] ELSE V_Str(val_raw)))

\* lines 279-284
SetMatched(mset, vs) ==
    IF ~mset.m THEN Raise(vs, "error: bad set syntax")
    ELSE SetValue(mset.name, Strip(mset.val), vs)
ExecSet(rest, vs) == SetMatched(assign_match(rest), vs)

\* lines 295-302
MathMatched(mm, vs) ==
    IF ~mm.m THEN Raise(vs, "error: bad math syntax")
    ELSE StoreEval(vs, mm.name, eval_expr(mm.val, vs))
ExecMath(rest, vs) == MathMatched(assign_match(rest), vs)

\* lines 305-308
GotoLabel(rest) ==
    LET label == Strip(rest)
    IN  IF EndsWith(label, "()") THEN Sub(label, 1, Len(label) - 2) ELSE label

\* lines 309-321: is_number(v) of a stored value, and the pause made
ValueIsNumber(v) == IF v.t = "str" THEN is_number(v.s) ELSE TRUE
ValueToInt(v) == IF v.t = "str" THEN to_number(v.s) ELSE v.i
ExecPause(rest, vs) ==
    LET t == Strip(rest)
        secs == IF is_number(t) THEN to_number(t) ELSE ValueToInt(vs[t])
    IN  IF t = "" THEN Outcome(RNone, vs, "input", "", "ok")
        ELSE IF is_number(t) \/ (Has(vs, t) /\ ValueIsNumber(vs[t]))
        THEN IF secs < 0 THEN Raise(vs, "error: ValueError")
             ELSE Outcome(RNone, vs, "sleep", NatToStr(secs), "ok")
        ELSE Outcome(RNone, vs, "input", "", "ok")

\* lines 265-334: the command cmd on the argument text rest
\* `exit` handing control back to the caller of the body it is in
ExecCommandExitReturns(raw, cmd, rest, vs) ==
    IF cmd = "text"
    THEN Outcome(RNone, vs, "print",
                 JoinParts(tokenize_text_args(rest, 1, "", "", <<>>), 1, vs),
                 "ok")
    ELSE IF cmd = "echo" THEN Outcome(RNone, vs, "print", rest, "ok")
    ELSE IF cmd = "set" THEN ExecSet(rest, vs)
    ELSE IF cmd = "math" THEN ExecMath(rest, vs)
    ELSE IF cmd = "clear" THEN Outcome(RNone, vs, "clear", "", "ok")
    ELSE IF cmd = "goto" THEN Outcome(RGoto(GotoLabel(rest)), vs, "", "", "ok")
    ELSE IF cmd = "pause" THEN ExecPause(rest, vs)
    ELSE IF cmd = "exit" THEN Outcome(RReturn, vs, "", "", "ok")
    ELSE IF cmd = "color" THEN Outcome(RNone, vs, "color", Strip(rest), "ok")
    ELSE Outcome(RNone, vs, "diagnostic",
                 "Unknown command: " \o cmd \o " (raw: " \o raw \o ")", "ok")

ExecCommand(raw, cmd, rest, vs) ==
    IF cmd = "text"
    THEN Outcome(RNone, vs, "print",
                 JoinParts(tokenize_text_args(rest, 1, "", "", <<>>), 1, vs),
                 "ok")
    ELSE IF cmd = "echo" THEN Outcome(RNone, vs, "print", rest, "ok")
    ELSE IF cmd = "set" THEN ExecSet(rest, vs)
    ELSE IF cmd = "math" THEN ExecMath(rest, vs)
    ELSE IF cmd = "clear" THEN Outcome(RNone, vs, "clear", "", "ok")
    ELSE IF cmd = "goto" THEN Outcome(RGoto(GotoLabel(rest)), vs, "", "", "ok")
    ELSE IF cmd = "pause" THEN ExecPause(rest, vs)
    ELSE IF cmd = "exit" THEN Raise(vs, "exit")
    ELSE IF cmd = "color" THEN Outcome(RNone, vs, "color", Strip(rest), "ok")
    ELSE Outcome(RNone, vs, "diagnostic",
                 "Unknown command: " \o cmd \o " (raw: " \o raw \o ")", "ok")

\* lines 256-263
ExecMatched(raw, m, vs) ==
    IF ~m.m THEN Outcome(RNone, vs, "", "", "ok")
    ELSE ExecCommand(raw, Lower(m.cmd), StmtArgs(m), vs)

\* lines 252-334
ExecStmt(raw, vs) == ExecMatched(raw, stmt_match(raw), vs)

(***************************************************************************)
(* Interpreter.__init__ and the label index.                               *)
(***************************************************************************)
call_stack_limit == 10000

\* e == n for two node dicts of one list, n a label: the same dict, or a
\* label with the same name and raw text (their children are both [] and
\* their parent is the same list object)
DictEq(e, n) ==
    \/ e = n
    \/ /\ nodes[e].type = "label" /\ nodes[n].type = "label"
       /\ nodes[e].name = nodes[n].name
       /\ nodes[e].raw = nodes[n].raw
       /\ nodes[e].parent = nodes[n].parent

\* the 1-based position, where parent.index(n) is 0-based
ListIndexOneBased(lst, n) ==
    CHOOSE j \in 1..Len(lists[lst]) :
        /\ DictEq(lists[lst][j], n)
        /\ \A k \in 1..(j - 1) : ~DictEq(lists[lst][k], n)

\* parent.index(n), 0-based: the first element equal to n
ListIndex(lst, n) ==
    (CHOOSE j \in 1..Len(lists[lst]) :
         /\ DictEq(lists[lst][j], n)
         /\ \A k \in 1..(j - 1) : ~DictEq(lists[lst][k], n)) - 1

\* lines 188-202: the table after indexing node_list from position k on
RECURSIVE index_list(_, _, _), index_node(_, _), index_parts(_, _, _)
index_list(lst, k, tab) ==
    IF k > Len(lists[lst]) THEN tab
    ELSE index_list(lst, k + 1, index_node(lists[lst][k], tab))
index_node(n, tab) ==
    LET nd == nodes[n]
        t1 == IF nd.type = "label"
              THEN Store(tab, nd.name,
                         <<nd.parent, ListIndex(nd.parent, n) + 1>>)
              ELSE tab
        t2 == IF nd.children # 0 THEN index_list(nd.children, 1, t1) ELSE t1
    IN  IF nd.type = "if" THEN index_parts(nd.parts, 1, t2) ELSE t2
index_parts(parts, j, tab) ==
    IF j > Len(parts) THEN tab
    ELSE index_parts(parts, j + 1,
                     index_list(nodes[parts[j]].children, 1, tab))

index_labels == index_list(1, 1, << >>)

\* parse_lines returns root (line 172); lines 181-186
Construct ==
    /\ pc = "parse"
    /\ pi = Len(lines)
    /\ vars' = << >>
    /\ labels' = index_labels
    /\ pc' = "ready"
    /\ UNCHANGED <<lines, pi, stack, nodes, lists>>
    /\ UNCHANGED <<cur_list, idx, steps, frames, ret, trace>>

(***************************************************************************)
(* The execution engine.  The Python call stack below run() is `frames`:   *)
(* a "list" frame is a call of run_stmt_list at position i of lst, a       *)
(* "loop" or "if" frame a call of run_node waiting for the run_stmt_list   *)
(* it made (left: the iterations still to start, -1 for `while True`).     *)
(***************************************************************************)
Frame(f, node, lst, i, left) ==
    [f |-> f, node |-> node, lst |-> lst, i |-> i, left |-> left]
Top == frames[Len(frames)]
Pop == SubSeq(frames, 1, Len(frames) - 1)

\* one executed statement: the node, and what it did to the terminal
Rec(n, eff, text) == [node |-> n, eff |-> eff, text |-> text]
Record(tr, e) == IF Len(tr) < MaxTrace THEN Append(tr, e) ELSE tr

\* lines 348-352: [ok, n]; not ok when int(to_number(...)) raises ValueError
LoopTimes(param, vs) ==
    LET p == Strip(param)
    IN  IF is_number(p) THEN [ok |-> TRUE, n |-> to_number(p)]
        ELSE IF ~Has(vs, p) THEN [ok |-> TRUE, n |-> 0]
        ELSE IF vs[p].t # "str" THEN [ok |-> TRUE, n |-> vs[p].i]
        ELSE IF IsIntText(vs[p].s) THEN [ok |-> TRUE, n |-> to_number(vs[p].s)]
        ELSE [ok |-> FALSE, n |-> 0]

\* lines 363-398: the arm whose body runs: [k |-> "arm", part], "none"
\* when no arm is taken, "err"/"unsupported" when a condition fails to
\* evaluate
RECURSIVE FirstArm(_, _, _)
ArmOf(parts, j, vs, ok) ==
    IF ok.k # "ok" THEN [k |-> ok.k, part |-> parts[j]]
    ELSE IF Truthy(ok.v) THEN [k |-> "arm", part |-> parts[j]]
    ELSE FirstArm(parts, j + 1, vs)
\* selecting the arm after evaluating the conditions of all the arms left
FirstArmEvaluatesAll(parts, j, vs) ==
    IF \E k \in j..Len(parts) :
           /\ nodes[parts[k]].kind # "else"
           /\ eval_cond(nodes[parts[k]].cond[1], vs).k = "err"
    THEN [k |-> "err", part |-> parts[j]]
    ELSE IF j > Len(parts) THEN [k |-> "none", part |-> 0]
    ELSE IF nodes[parts[j]].kind = "else" THEN [k |-> "arm", part |-> parts[j]]
    ELSE ArmOf(parts, j, vs, eval_cond(nodes[parts[j]].cond[1], vs))

FirstArm(parts, j, vs) ==
    IF j > Len(parts) THEN [k |-> "none", part |-> 0]
    ELSE IF nodes[parts[j]].kind = "else" THEN [k |-> "arm", part |-> parts[j]]
    ELSE ArmOf(parts, j, vs, eval_cond(nodes[parts[j]].cond[1], vs))

\* lines 252-334: run_node on a statement whose outcome is x
InvokeStmt(n, fr, x) ==
    /\ pc' = IF x.st = "ok" THEN pc ELSE x.st
    /\ vars' = x.vars
    /\ trace' = IF x.st = "ok"
                THEN Record(trace, Rec(n, x.eff, x.text)) ELSE trace
    /\ ret' = IF x.st = "ok" THEN x.res ELSE NoRet
    /\ frames' = fr

\* run_node returns None without running a body
InvokeNone(fr) ==
    /\ ret' = RNone
    /\ frames' = fr
    /\ UNCHANGED <<pc, vars, trace>>

\* run_node calls run_stmt_list(body, 0) from the frame fm
InvokeBody(fr, fm, body) ==
    /\ frames' = fr \o <<fm, Frame("list", 0, body, 0, 0)>>
    /\ ret' = NoRet
    /\ UNCHANGED <<pc, vars, trace>>

\* an exception leaves run_node
InvokeRaise(fr, st) ==
    /\ pc' = st
    /\ frames' = fr
    /\ UNCHANGED <<vars, trace, ret>>

\* a counted loop that runs its body once more than its count
InvokeCountedOnceMore(n, fr, t) ==
    IF ~t.ok THEN InvokeRaise(fr, "error: ValueError")
    ELSE IF t.n > 0
    THEN InvokeBody(fr, Frame("loop", n, 0, 0, t.n), nodes[n].children)
    ELSE InvokeNone(fr)

\* lines 347-360: a counted loop whose count resolved to t
InvokeCounted(n, fr, t) ==
    IF ~t.ok THEN InvokeRaise(fr, "error: ValueError")
    ELSE IF t.n > 0
    THEN InvokeBody(fr, Frame("loop", n, 0, 0, t.n - 1), nodes[n].children)
    ELSE InvokeNone(fr)

\* lines 362-398: a conditional whose arm is `arm`
InvokeIf(n, fr, arm) ==
    IF arm.k = "arm"
    THEN InvokeBody(fr, Frame("if", n, 0, 0, 0), nodes[arm.part].children)
    ELSE IF arm.k = "none" THEN InvokeNone(fr)
    ELSE InvokeRaise(fr, IF arm.k = "err" THEN "error: bad condition"
                         ELSE "unsupported")

\* lines 248-400: run_node(n) is called with fr the frames of its callers.
\* A statement or a label returns at once (ret'); a loop or a conditional
\* that runs a body pushes its frame and the body's.
Invoke(n, fr) ==
    IF nodes[n].type = "stmt"
    THEN InvokeStmt(n, fr, ExecStmt(nodes[n].raw, vars))
    ELSE IF nodes[n].type = "loop"
    THEN IF nodes[n].param = None \/ nodes[n].param[1] = ""
         THEN InvokeBody(fr, Frame("loop", n, 0, 0, -1), nodes[n].children)
         ELSE InvokeCounted(n, fr, LoopTimes(nodes[n].param[1], vars))
    ELSE IF nodes[n].type = "if"
    THEN InvokeIf(n, fr, FirstArm(nodes[n].parts, 1, vars))
    ELSE InvokeNone(fr)

\* lines 402-405
RunStart ==
    /\ pc = "ready"
    /\ pc' = "run"
    /\ cur_list' = 1
    /\ idx' = 0
    /\ steps' = 0
    /\ UNCHANGED <<lines, pi, stack, nodes, lists, labels>>
    /\ UNCHANGED <<vars, frames, ret, trace>>

\* run() going on after the loop or conditional of the root list whose
\* body it has run to the end
RunResumesOuter ==
    /\ pc = "run"
    /\ frames = << >>
    /\ ret = NoRet
    /\ LET encl == {n \in 1..Len(nodes) :
                        /\ nodes[n].parent = 1
                        /\ \/ nodes[n].children = cur_list
                           \/ \E j \in 1..Len(nodes[n].parts) :
                                  nodes[nodes[n].parts[j]].children = cur_list}
       IN  IF idx >= Len(lists[cur_list]) /\ cur_list # 1 /\ encl # {}
           THEN /\ cur_list' = 1
                /\ idx' = CHOOSE j \in 1..Len(lists[1]) : lists[1][j] \in encl
                /\ UNCHANGED <<pc, vars, frames, ret, trace, steps>>
           ELSE IF idx >= Len(lists[cur_list])
           THEN /\ pc' = "done"
                /\ UNCHANGED <<vars, frames, ret, trace, cur_list, idx, steps>>
           ELSE /\ Invoke(lists[cur_list][idx + 1], << >>)
                /\ UNCHANGED <<cur_list, idx, steps>>
    /\ UNCHANGED <<lines, pi, stack, nodes, lists, labels>>

\* lines 406-410: run() leaves its loop, or calls run_node
Run ==
    /\ pc = "run"
    /\ frames = << >>
    /\ ret = NoRet
    /\ IF idx >= Len(lists[cur_list])
       THEN /\ pc' = "done"
            /\ UNCHANGED <<vars, frames, ret, trace>>
       ELSE Invoke(lists[cur_list][idx + 1], << >>)
    /\ UNCHANGED <<lines, pi, stack, nodes, lists, labels>>
    /\ UNCHANGED <<cur_list, idx, steps>>

\* run() dropping the table entry of a label once it has jumped to it
RunResultForgetsLabel ==
    /\ pc = "run"
    /\ frames = << >>
    /\ ret.k \in NodeResults
    /\ IF ret.k = "goto" /\ ret.label # None /\ ~Has(labels, ret.label[1])
       THEN /\ pc' = "error: unknown label"
            /\ UNCHANGED <<cur_list, idx, steps, ret, labels>>
       ELSE IF ret.k = "goto" /\ ret.label # None
       THEN /\ cur_list' = labels[ret.label[1]][1]
            /\ idx' = labels[ret.label[1]][2]
            /\ ret' = NoRet
            /\ labels' = [l \in DOMAIN labels \ {ret.label[1]} |-> labels[l]]
            /\ UNCHANGED <<pc, steps>>
       ELSE IF ret.k = "goto"
       THEN /\ cur_list' = ret.lst
            /\ idx' = ret.idx
            /\ ret' = NoRet
            /\ UNCHANGED <<pc, steps, labels>>
       ELSE /\ idx' = idx + 1
            /\ steps' = steps + 1
            /\ pc' = IF steps + 1 > call_stack_limit
                     THEN "error: step limit" ELSE pc
            /\ ret' = NoRet
            /\ UNCHANGED <<cur_list, labels>>
    /\ UNCHANGED <<lines, pi, stack, nodes, lists>>
    /\ UNCHANGED <<vars, frames, trace>>

\* run() starting to count again after each jump
RunResultResetsOnJump ==
    /\ pc = "run"
    /\ frames = << >>
    /\ ret.k \in NodeResults
    /\ IF ret.k = "goto" /\ ret.label # None /\ ~Has(labels, ret.label[1])
       THEN /\ pc' = "error: unknown label"
            /\ UNCHANGED <<cur_list, idx, steps, ret>>
       ELSE IF ret.k = "goto" /\ ret.label # None
       THEN /\ cur_list' = labels[ret.label[1]][1]
            /\ idx' = labels[ret.label[1]][2]
            /\ ret' = NoRet
            /\ steps' = 0
            /\ UNCHANGED pc
       ELSE IF ret.k = "goto"
       THEN /\ cur_list' = ret.lst
            /\ idx' = ret.idx
            /\ ret' = NoRet
            /\ steps' = 0
            /\ UNCHANGED pc
       ELSE /\ idx' = idx + 1
            /\ steps' = steps + 1
            /\ pc' = IF steps + 1 > call_stack_limit
                     THEN "error: step limit" ELSE pc
            /\ ret' = NoRet
            /\ UNCHANGED cur_list
    /\ UNCHANGED <<lines, pi, stack, nodes, lists, labels>>
    /\ UNCHANGED <<vars, frames, trace>>

\* lines 411-429: run() acts on what run_node returned
RunResult ==
    /\ pc = "run"
    /\ frames = << >>
    /\ ret.k \in NodeResults
    /\ IF ret.k = "goto" /\ ret.label # None /\ ~Has(labels, ret.label[1])
       THEN /\ pc' = "error: unknown label"
            /\ UNCHANGED <<cur_list, idx, steps, ret>>
       ELSE IF ret.k = "goto" /\ ret.label # None
       THEN /\ cur_list' = labels[ret.label[1]][1]
            /\ idx' = labels[ret.label[1]][2]
            /\ ret' = NoRet
            /\ UNCHANGED <<pc, steps>>
       ELSE IF ret.k = "goto"
       THEN /\ cur_list' = ret.lst
            /\ idx' = ret.idx
            /\ ret' = NoRet
            /\ UNCHANGED <<pc, steps>>
       ELSE /\ idx' = idx + 1
            /\ steps' = steps + 1
            /\ pc' = IF steps + 1 > call_stack_limit
                     THEN "error: step limit" ELSE pc
            /\ ret' = NoRet
            /\ UNCHANGED cur_list
    /\ UNCHANGED <<lines, pi, stack, nodes, lists, labels>>
    /\ UNCHANGED <<vars, frames, trace>>

\* lines 234-236 and 246: run_stmt_list calls run_node, or returns ("done",)
StmtListStep ==
    /\ pc = "run"
    /\ frames # << >>
    /\ Top.f = "list"
    /\ ret = NoRet
    /\ IF Top.i < Len(lists[Top.lst])
       THEN Invoke(lists[Top.lst][Top.i + 1], frames)
       ELSE /\ frames' = Pop
            /\ ret' = LDone
            /\ UNCHANGED <<pc, vars, trace>>
    /\ UNCHANGED <<lines, pi, stack, nodes, lists, labels>>
    /\ UNCHANGED <<cur_list, idx, steps>>

\* run_stmt_list going on to its next node whatever run_node returned
StmtListResultIgnoresGoto ==
    /\ pc = "run"
    /\ frames # << >>
    /\ Top.f = "list"
    /\ ret.k \in NodeResults
    /\ frames' = [frames EXCEPT ![Len(frames)].i = @ + 1]
    /\ ret' = NoRet
    /\ UNCHANGED <<lines, pi, stack, nodes, lists, labels, pc>>
    /\ UNCHANGED <<vars, cur_list, idx, steps, trace>>

\* lines 237-245: run_stmt_list acts on what run_node returned
StmtListResult ==
    /\ pc = "run"
    /\ frames # << >>
    /\ Top.f = "list"
    /\ ret.k \in NodeResults
    /\ IF ret.k = "goto" /\ (ret.label = None \/ ~Has(labels, ret.label[1]))
       THEN /\ pc' = "error: unknown label"
            /\ UNCHANGED <<frames, ret>>
       ELSE IF ret.k = "goto"
       THEN /\ frames' = Pop
            /\ ret' = LJump(labels[ret.label[1]][1], labels[ret.label[1]][2])
            /\ UNCHANGED pc
       ELSE IF ret.k = "return_to_caller"
       THEN /\ frames' = Pop
            /\ ret' = LReturn
            /\ UNCHANGED pc
       ELSE /\ frames' = [frames EXCEPT ![Len(frames)].i = @ + 1]
            /\ ret' = NoRet
            /\ UNCHANGED pc
    /\ UNCHANGED <<lines, pi, stack, nodes, lists, labels>>
    /\ UNCHANGED <<vars, cur_list, idx, steps, trace>>

\* a loop that starts its body again without counting the iteration
LoopResultKeepsCount ==
    /\ pc = "run"
    /\ frames # << >>
    /\ Top.f = "loop"
    /\ ret.k \in ListResults
    /\ IF ret.k = "jump"
       THEN /\ frames' = Pop
            /\ ret' = RGotoJump(ret.lst, ret.idx)
       ELSE IF ret.k = "return"
       THEN /\ frames' = Pop
            /\ ret' = RReturn
       ELSE IF Top.left = 0
       THEN /\ frames' = Pop
            /\ ret' = RNone
       ELSE /\ frames' = Append(frames,
                                Frame("list", 0, nodes[Top.node].children, 0, 0))
            /\ ret' = NoRet
    /\ UNCHANGED <<lines, pi, stack, nodes, lists, labels, pc>>
    /\ UNCHANGED <<vars, cur_list, idx, steps, trace>>

\* a loop that takes a jump out of its body for the end of an iteration
LoopResultResumes ==
    /\ pc = "run"
    /\ frames # << >>
    /\ Top.f = "loop"
    /\ ret.k \in ListResults
    /\ IF ret.k = "return"
       THEN /\ frames' = Pop
            /\ ret' = RReturn
       ELSE IF Top.left = 0
       THEN /\ frames' = Pop
            /\ ret' = IF ret.k = "jump" THEN RGotoJump(ret.lst, ret.idx)
                      ELSE RNone
       ELSE /\ frames' = Append([frames EXCEPT ![Len(frames)].left =
                                     IF @ < 0 THEN @ ELSE @ - 1],
                                Frame("list", 0, nodes[Top.node].children, 0, 0))
            /\ ret' = NoRet
    /\ UNCHANGED <<lines, pi, stack, nodes, lists, labels, pc>>
    /\ UNCHANGED <<vars, cur_list, idx, steps, trace>>

\* lines 339-346 and 353-360: a loop acts on what its body returned
LoopResult ==
    /\ pc = "run"
    /\ frames # << >>
    /\ Top.f = "loop"
    /\ ret.k \in ListResults
    /\ IF ret.k = "jump"
       THEN /\ frames' = Pop
            /\ ret' = RGotoJump(ret.lst, ret.idx)
       ELSE IF ret.k = "return"
       THEN /\ frames' = Pop
            /\ ret' = RReturn
       ELSE IF Top.left = 0
       THEN /\ frames' = Pop
            /\ ret' = RNone
       ELSE /\ frames' = Append([frames EXCEPT ![Len(frames)].left =
                                     IF @ < 0 THEN @ ELSE @ - 1],
                                Frame("list", 0, nodes[Top.node].children, 0, 0))
            /\ ret' = NoRet
    /\ UNCHANGED <<lines, pi, stack, nodes, lists, labels, pc>>
    /\ UNCHANGED <<vars, cur_list, idx, steps, trace>>

\* lines 366-372 and 391-397: a conditional acts on what its arm returned
IfResult ==
    /\ pc = "run"
    /\ frames # << >>
    /\ Top.f = "if"
    /\ ret.k \in ListResults
    /\ frames' = Pop
    /\ ret' = IF ret.k = "jump" THEN RGotoJump(ret.lst, ret.idx)
              ELSE IF ret.k = "return" THEN RReturn
              ELSE RNone
    /\ UNCHANGED <<lines, pi, stack, nodes, lists, labels, pc>>
    /\ UNCHANGED <<vars, cur_list, idx, steps, trace>>


(***************************************************************************)
(* The scripts.  ShapedScripts: every script of at most MaxLines lines     *)
(* over the line shapes of Shapes at two indentation depths.  GotoScripts: *)
(* the same behind a `goto L`.  Programs: scripts with deeper nesting,     *)
(* jumps, variables and the two call shapes of a statement.                *)
(***************************************************************************)
Shapes == {"text \"a\"", "L():", "loop(2):", "if 1:", "if 0:", "elif 1:",
           "else:"}
Indents == {"", "    "}
ShapedLines == {i \o b : i \in Indents, b \in Shapes}
\* the first line of a script is not indented
ShapedScripts ==
    {<< >>} \cup
    {<<b>> \o t : b \in Shapes,
                  t \in UNION {[1..n -> ShapedLines] : n \in 0..(MaxLines - 1)}}
\* a goto at the head of every shorter script
GotoScripts ==
    {<<"goto L">> \o t :
        t \in UNION {[1..n -> ShapedLines] : n \in 0..(MaxLines - 1)}}

Programs == {
    \* a goto inside a loop inside a loop, and inside a loop inside an arm
    <<"loop(2):", "    loop(2):", "        goto done", "        text \"in\"",
      "    text \"outer\"", "text \"skipped\"", "done():", "text \"end\"">>,
    <<"if 1:", "    loop(2):", "        goto done()", "    text \"arm\"",
      "text \"skipped\"", "done():", "text \"end\"">>,
    \* a goto directly inside a top-level loop
    <<"loop(2):", "    text \"in\"", "    goto done", "    text \"no\"",
      "text \"skipped\"", "done():", "text \"end\"">>,
    \* an infinite loop of non-jumping statements
    <<"text \"start\"", "loop:", "    text \"a\"", "    set x = 1",
      "text \"after\"">>,
    \* forward gotos at top level; a label defined twice
    <<"goto done()", "text \"mid\"", "done():", "text \"end\"">>,
    <<"goto L", "text \"a\"", "L():", "text \"b\"", "L():", "text \"c\"">>,
    <<"goto L", "text \"a\"", "L():", "text \"b\"", "loop(2):", "    L():",
      "    text \"c\"">>,
    \* gotos to a label that is not defined
    <<"text \"a\"", "goto nowhere", "text \"b\"">>,
    <<"loop(2):", "    goto nowhere", "    text \"b\"", "text \"c\"">>,
    <<"if 1:", "    loop(2):", "        goto nowhere", "        set x = 1",
      "text \"c\"">>,
    \* variables, a counted loop over a variable, a comparison
    <<"set x = 2", "loop(x):", "    math x = x + 1", "    text x",
      "if x = 4:", "    text \"four\"", "else:", "    text \"other\"">>,
    \* both call shapes at once
    <<"text(\"a\") \"b\"", "echo(hi) there", "set(x = 1) y = 2", "text(x) y">>,
    \* boolean keywords in math and in a condition
    <<"set a = 1", "set b = 2", "math c = a and b", "text c",
      "if a and b:", "    text \"yes\"", "text \"end\"">>,
    \* loops in loops and a conditional in a loop, without a goto
    <<"set n = 0", "loop(2):", "    loop(3):", "        math n = n + 1",
      "    if n = 3:", "        text \"three\"", "    elif n = 6:",
      "        text \"six\"", "    else:", "        text \"other\"",
      "text n">>,
    \* counts of zero and less
    <<"loop(0):", "    text \"never\"", "loop(k):", "    text \"never\"",
      "set m = -1", "loop(m):", "    text \"never\"", "loop(-2):",
      "    text \"never\"", "text \"end\"">>,
    \* a conditional whose later arm has an ill-formed condition
    <<"set x = 1", "if x = 2:", "    text \"A\"", "elif x = 1:",
      "    text \"B\"", "elif x +:", "    text \"C\"", "else:",
      "    text \"D\"", "text \"end\"">>,
    \* a jump into the body of a loop, with a variable
    <<"set x = 1", "goto L", "loop(2):", "    text \"in\"", "    L():",
      "    math x = x + 1", "text \"end\"">>,
    \* an unknown command, and text that is no command at all
    <<"set x = 1", "foo x", "\"hello\"", "text x">>,
    \* a text value that looks like a number, in both evaluators
    <<"set x = \"5\"", "math y = x + 1", "if x = 5:", "    text \"eq\"",
      "text y">>,
    \* a cycle of the root list through a statement that does not jump
    <<"L():", "text \"a\"", "goto L">>,
    \* exit inside a loop
    <<"text \"a\"", "loop(2):", "    text \"b\"", "    exit", "text \"c\"">>,
    \* blank lines and comments
    <<"# demo", "", "text \"a\"", "    ", "    # note", "text \"b\"">>
}

Init ==
    /\ (lines \in ShapedScripts \/ lines \in GotoScripts \/ lines \in Programs)
    /\ pi = 0
    /\ stack = << <<-1, 1>> >>
    /\ nodes = << >>
    /\ lists = << << >> >>
    /\ pc = "parse"
    /\ vars = << >>
    /\ labels = << >>
    /\ cur_list = 1
    /\ idx = 0
    /\ steps = 0
    /\ frames = << >>
    /\ ret = NoRet
    /\ trace = << >>

Next ==
    \/ ParseBlank
    \/ ParseLabel
    \/ ParseLoop
    \/ ParseIf
    \/ ParseElse
    \/ ParseStmt
    \/ Construct
    \/ RunStart
    \/ Run
    \/ RunResult
    \/ StmtListStep
    \/ StmtListResult
    \/ LoopResult
    \/ IfResult

Spec == Init /\ [][Next]_all_vars

\* The interpreter is one sequential Python call: it takes its next step
\* whenever it has one.  HasStep is ENABLED <<Next>>_all_vars (every state
\* that has not ended has exactly one successor, and it is a different
\* state), so the last conjunct of FairSpec is WF_all_vars(Next) written
\* with its enabling condition spelled out.
HasStep == pc \in {"parse", "ready", "run"}
FairSpec ==
    /\ Spec
    /\ WF_all_vars(RunResult)
    /\ ([]<>(~HasStep) \/ []<><<Next>>_all_vars)

(***************************************************************************)
(* Vocabulary of the properties.                                           *)
(***************************************************************************)
NodeIds == 1..Len(nodes)
ListIds == 1..Len(lists)
Running == pc = "run"

\* the 1-based position of node n in list l (0 when it is not there)
PosIn(l, n) ==
    IF \E j \in 1..Len(lists[l]) : lists[l][j] = n
    THEN CHOOSE j \in 1..Len(lists[l]) : lists[l][j] = n
    ELSE 0

\* the command word of a statement node
CmdOf(n) == Lower(stmt_match(nodes[n].raw).cmd)
IsGotoNode(n) ==
    /\ nodes[n].type = "stmt"
    /\ stmt_match(nodes[n].raw).m
    /\ CmdOf(n) = "goto"

\* run_node has just returned a jump that a loop or a conditional carried
\* out of its body
CarriedJump == Running /\ ret.k = "goto" /\ ret.label = None

\* the call of run_stmt_list on top of the stack was made by a loop or a
\* conditional that is itself run by a run_stmt_list: nesting depth >= 2
NestedList == Len(frames) >= 3 /\ Top.f = "list"

(***************************************************************************)
(* C1: a goto to a defined label executed at nesting depth two or more     *)
(* raises no error: the jump that the inner loop or conditional carries    *)
(* out is handed on by the enclosing body, which runs no further node, and *)
(* the run resumes at the node after the target label.  Stated on the      *)
(* step at which the enclosing run_stmt_list receives the carried jump.    *)
(***************************************************************************)
C1_NestedGotoPropagates ==
    [][(CarriedJump /\ frames # << >>)
          => /\ pc' = "run"
             /\ frames' = Pop
             /\ ret' = LJump(ret.lst, ret.idx)
             /\ trace' = trace
             /\ vars' = vars]_all_vars

(***************************************************************************)
(* C2: once run() has entered a count-less loop whose body holds only      *)
(* non-jumping statements, the run eventually ends with the step-limit     *)
(* error.                                                                  *)
(***************************************************************************)
NonJumpingBody(l) ==
    \A j \in 1..Len(lists[l]) :
        /\ nodes[lists[l][j]].type = "stmt"
        /\ stmt_match(nodes[lists[l][j]].raw).m
        /\ CmdOf(lists[l][j]) \in {"text", "echo", "set", "math"}
InInfiniteLoop ==
    /\ Running
    /\ \E k \in 1..Len(frames) :
           /\ frames[k].f = "loop"
           /\ frames[k].left < 0
           /\ NonJumpingBody(nodes[frames[k].node].children)
C2_InfiniteLoopHitsStepLimit == InInfiniteLoop ~> (pc = "error: step limit")

(***************************************************************************)
(* C3 and C4: a goto statement returns to run() or to run_stmt_list.       *)
(***************************************************************************)
\* the label a goto statement node names
GotoTarget(n) == GotoLabel(StmtArgs(stmt_match(nodes[n].raw)))
LabelNodes(name) ==
    {n \in NodeIds : nodes[n].type = "label" /\ nodes[n].name = name}
DefinedOnce(name) == Cardinality(LabelNodes(name)) = 1

\* run() has dispatched a goto statement of the root list
TopGoto ==
    /\ Running
    /\ frames = << >>
    /\ cur_list = 1
    /\ ret.k = "goto"
    /\ ret.label # None
\* n is a definition of the label named, later in the root list
ForwardLabel(n) ==
    /\ n \in LabelNodes(ret.label[1])
    /\ nodes[n].parent = 1
    /\ PosIn(1, n) > idx + 1
\* the step runs no statement and leaves run() at the node after label n
ResumesAfter(n) ==
    /\ pc' = "run"
    /\ frames' = << >>
    /\ cur_list' = 1
    /\ idx' = PosIn(1, n)
    /\ trace' = trace
    /\ vars' = vars

\* C3 as stated: whenever a top-level `goto L` is followed later in the
\* root list by a label `L():`, the goto runs none of the statements in
\* between and run() resumes at the node immediately after that label.
C3_ForwardGotoAnyLabel ==
    [][\A n \in NodeIds : (TopGoto /\ ForwardLabel(n)) => ResumesAfter(n)]_all_vars

\* C3, amended: the same, for a label L that is defined only once in the
\* script.
C3_ForwardGoto ==
    [][\A n \in NodeIds :
          (TopGoto /\ ForwardLabel(n) /\ DefinedOnce(ret.label[1]))
              => ResumesAfter(n)]_all_vars

\* a forward goto to a label defined once has been executed and run() is
\* about to dispatch the node after the label, having skipped a statement
C3_Witness ==
    /\ Running
    /\ frames = << >>
    /\ ret = NoRet
    /\ cur_list = 1
    /\ trace # << >>
    /\ Len(trace) < MaxTrace
    /\ LET g == trace[Len(trace)].node
       IN  /\ IsGotoNode(g)
           /\ nodes[g].parent = 1
           /\ DefinedOnce(GotoTarget(g))
           /\ \E n \in LabelNodes(GotoTarget(g)) :
                  /\ nodes[n].parent = 1
                  /\ PosIn(1, n) > PosIn(1, g) + 1
                  /\ idx = PosIn(1, n)
                  /\ idx < Len(lists[1])

\* a goto has named a label that the label table does not hold
UnknownGoto ==
    /\ Running
    /\ ret.k = "goto"
    /\ ret.label # None
    /\ ~Has(labels, ret.label[1])

(***************************************************************************)
(* C4: when a goto names a label absent from the label table, at any       *)
(* nesting depth, the next step ends the run with the unknown-label error  *)
(* without an effect or a variable update, and no step follows the error.  *)
(***************************************************************************)
C4_UnknownLabelAborts ==
    [][/\ pc # "error: unknown label"
       /\ UnknownGoto => /\ pc' = "error: unknown label"
                         /\ trace' = trace
                         /\ vars' = vars]_all_vars

\* the run has ended with the error on a goto inside a loop inside an arm,
\* with statements left to run after it
C4_Witness ==
    /\ pc = "error: unknown label"
    /\ ret.label # None
    /\ ~Has(labels, ret.label[1])
    /\ Len(frames) >= 4
    /\ Top.f = "list"
    /\ Top.i + 1 < Len(lists[Top.lst])

(***************************************************************************)
(* C5: the reference order of execution.  Expected is the pre-order        *)
(* traversal of the parsed tree, computed by recursion over the tree with  *)
(* no call stack: a statement is visited once, a counted loop's body as    *)
(* many times as its count, a conditional's body of its first truthy arm   *)
(* (or of its else arm).  It threads the variable store, on which counts   *)
(* and conditions depend.                                                  *)
(***************************************************************************)
Visit(vs, out) == [vs |-> vs, out |-> out]

\* the arms of a conditional whose body may run: an else arm, or an arm
\* whose condition is truthy
IsTruthy(r) == r.k = "ok" /\ Truthy(r.v)
ArmTaken(parts, j, vs) ==
    \/ nodes[parts[j]].kind = "else"
    \/ IsTruthy(eval_cond(nodes[parts[j]].cond[1], vs))
\* the first of them (0: none)
FirstOf(parts, taken) ==
    IF taken = {} THEN 0
    ELSE parts[CHOOSE j \in taken : \A k \in taken : j <= k]
ChosenArm(parts, vs) ==
    FirstOf(parts, {j \in 1..Len(parts) : ArmTaken(parts, j, vs)})

RECURSIVE PreOrderList(_, _, _), PreOrderNode(_, _), PreOrderLoop(_, _, _)
PreOrderArm(a, acc) ==
    IF a = 0 THEN acc ELSE PreOrderList(nodes[a].children, 1, acc)
PreOrderList(l, j, acc) ==
    IF j > Len(lists[l]) THEN acc
    ELSE PreOrderList(l, j + 1, PreOrderNode(lists[l][j], acc))
PreOrderNode(n, acc) ==
    IF nodes[n].type = "stmt"
    THEN Visit(ExecStmt(nodes[n].raw, acc.vs).vars, Append(acc.out, n))
    ELSE IF nodes[n].type = "loop"
    THEN PreOrderLoop(n, LoopTimes(nodes[n].param[1], acc.vs).n, acc)
    ELSE IF nodes[n].type = "if"
    THEN PreOrderArm(ChosenArm(nodes[n].parts, acc.vs), acc)
    ELSE acc
PreOrderLoop(n, k, acc) ==
    IF k <= 0 THEN acc
    ELSE PreOrderLoop(n, k - 1, PreOrderList(nodes[n].children, 1, acc))
Expected == PreOrderList(1, 1, Visit(<< >>, << >>)).out

\* the statement nodes executed so far, in order
Executed == [j \in 1..Len(trace) |-> trace[j].node]
Min(a, b) == IF a < b THEN a ELSE b

\* the executed statements are the first ones of the order e, and all of
\* them (up to MaxTrace) once run() has returned
Follows(e) ==
    /\ Len(trace) <= Len(e)
    /\ Executed = SubSeq(e, 1, Len(trace))
    /\ pc = "done" => Len(trace) = Min(Len(e), MaxTrace)

\* an `if` arm first and no other, no arm after an `else`
ArmsOrdered(n) ==
    LET ps == nodes[n].parts
    IN  /\ ps # << >>
        /\ nodes[ps[1]].kind = "if"
        /\ \A j \in 2..Len(ps) : nodes[ps[j]].kind # "if"
        /\ \A j \in 1..(Len(ps) - 1) : nodes[ps[j]].kind # "else"
\* no elif/else header stands in a statement list
OrphanFree ==
    \A l \in ListIds : \A j \in 1..Len(lists[l]) :
        nodes[lists[l][j]].type # "ifpart"
WellFormed ==
    /\ OrphanFree
    /\ \A n \in NodeIds : nodes[n].type = "if" => ArmsOrdered(n)
GotoFree == \A n \in NodeIds : ~IsGotoNode(n)
CountedLoops ==
    \A n \in NodeIds :
        nodes[n].type = "loop" => nodes[n].param # None /\ nodes[n].param[1] # ""

(***************************************************************************)
(* C5: for a well-formed script with no goto and no count-less loop, the   *)
(* statements run() has executed are at every moment the first ones of the *)
(* pre-order traversal Expected, and all of them when run() returns (the   *)
(* recorded trace keeps the first MaxTrace).                               *)
(***************************************************************************)
C5_PreOrderExecution ==
    (pc \in {"run", "done"} /\ WellFormed /\ GotoFree /\ CountedLoops)
        => Follows(Expected)

\* run() has returned from a script with a counted loop and a two-armed
\* conditional, after at least five statements
C5_Witness ==
    /\ pc = "done"
    /\ WellFormed /\ GotoFree /\ CountedLoops
    /\ \E n \in NodeIds : nodes[n].type = "loop"
    /\ \E n \in NodeIds : nodes[n].type = "if" /\ Len(nodes[n].parts) >= 2
    /\ Len(trace) >= 5
    /\ Len(trace) < MaxTrace

(***************************************************************************)
(* C6: every Conditional node parse_lines produces has an `if` arm as its  *)
(* first arm and no other `if` arm, and nothing after an `else` arm (so at *)
(* most one `else`, and it is last).                                       *)
(***************************************************************************)
C6_ArmInvariant ==
    \A n \in NodeIds : nodes[n].type = "if" => ArmsOrdered(n)

\* the line parse_lines is at is an elif/else header
HeaderAtLine ==
    /\ AtLine
    /\ ~IsSkipped(CurRaw)
    /\ m_label(Stripped) = None
    /\ ~m_loop(Stripped).m
    /\ \/ m_if(Stripped).m /\ m_if(Stripped).kind = "elif"
       \/ ~m_if(Stripped).m /\ m_else(Stripped)
\* ... and the current statement list holds no Conditional
OrphanHeader == HeaderAtLine /\ FindIf(lists[CurList]) = 0

(***************************************************************************)
(* C7: when parse_lines meets an elif/else header and the current list     *)
(* holds no Conditional, parsing stops with an error: it does not go on to *)
(* the next line and adds no node to the tree.                             *)
(***************************************************************************)
C7_OrphanHeaderRejected ==
    [][OrphanHeader => /\ pc' # "parse"
                       /\ nodes' = nodes
                       /\ lists' = lists]_all_vars

(***************************************************************************)
(* C8: whenever parse_lines attaches an arm to a Conditional, that         *)
(* Conditional is the last node of its statement list: the immediately     *)
(* preceding sibling of the header.                                        *)
(***************************************************************************)
C8_AttachToPrecedingSibling ==
    [][\A c \in NodeIds :
          (nodes[c].type = "if" /\ Len(nodes'[c].parts) > Len(nodes[c].parts))
              => lists[nodes[c].parent][Len(lists[nodes[c].parent])] = c]_all_vars

(***************************************************************************)
(* C9: a statement whose text has both a non-empty parenthesized argument  *)
(* list and non-empty trailing text hands the parenthesized list to its    *)
(* command.                                                                *)
(***************************************************************************)
C9_ParenArgsWin ==
    \A n \in NodeIds :
        (/\ nodes[n].type = "stmt"
         /\ stmt_match(nodes[n].raw).m
         /\ stmt_match(nodes[n].raw).paren # None
         /\ stmt_match(nodes[n].raw).paren[1] # ""
         /\ stmt_match(nodes[n].raw).rest # None
         /\ Strip(stmt_match(nodes[n].raw).rest[1]) # "")
            => StmtArgs(stmt_match(nodes[n].raw))
                   = stmt_match(nodes[n].raw).paren[1]

\* the word w stands in s
ContainsWord(s, w) ==
    \E p \in 1..Len(s) :
        /\ Sub(s, p, p + Len(w) - 1) = w
        /\ (p = 1 \/ Char(s, p - 1) \notin WordChars)
        /\ (p + Len(w) > Len(s) \/ Char(s, p + Len(w)) \notin WordChars)
HasBoolKeyword(s) == \E w \in {"and", "or", "not"} : ContainsWord(s, w)

\* run() or run_stmt_list is about to call run_node on node n
Dispatching(n) ==
    /\ Running
    /\ ret = NoRet
    /\ \/ /\ frames = << >>
          /\ idx < Len(lists[cur_list])
          /\ lists[cur_list][idx + 1] = n
       \/ /\ frames # << >>
          /\ Top.f = "list"
          /\ Top.i < Len(lists[Top.lst])
          /\ lists[Top.lst][Top.i + 1] = n
\* the condition of the `if` arm of Conditional n
IfCond(n) == nodes[nodes[n].parts[1]].cond[1]

(***************************************************************************)
(* C10: a condition that contains `and`, `or` or `not` and that `math`     *)
(* evaluates to a truthy value is truthy as an `if` condition too: the     *)
(* Conditional raises no error and runs the body of its `if` arm.          *)
(***************************************************************************)
C10_KeywordsKeptInConditions ==
    [][\A n \in NodeIds :
          (/\ Dispatching(n)
           /\ nodes[n].type = "if"
           /\ HasBoolKeyword(IfCond(n))
           /\ eval_expr(IfCond(n), vars).k = "ok"
           /\ Truthy(eval_expr(IfCond(n), vars).v))
              => /\ pc' = "run"
                 /\ frames' = frames \o
                        <<Frame("if", n, 0, 0, 0),
                          Frame("list", 0, nodes[nodes[n].parts[1]].children,
                                0, 0)>>]_all_vars

\* node n is a loop with a count
CountedLoop(n) ==
    /\ nodes[n].type = "loop"
    /\ nodes[n].param # None
    /\ nodes[n].param[1] # ""
\* the frames run_node(n) pushes to run the body of n, with `left`
\* iterations to start after this one
BodyFrames(f, n, left) ==
    <<Frame(f, n, 0, 0, left), Frame("list", 0, nodes[n].children, 0, 0)>>

\* the loop on top of the stack has a count and its body has just ended
\* without a jump
IterationEnded ==
    /\ Running
    /\ frames # << >>
    /\ Top.f = "loop"
    /\ Top.left >= 0
    /\ ret.k = "done"

(***************************************************************************)
(* C11: a counted loop resolves its count once, on entry, and runs its     *)
(* body exactly that many times unless the body yields a jump: entered     *)
(* with count t > 0 it starts the body with t - 1 iterations left, with    *)
(* t <= 0 it returns without running the body; each iteration that ends    *)
(* starts the next with one less left, whatever the store holds then, and  *)
(* the loop returns when none is left.                                     *)
(***************************************************************************)
C11_CountResolvedOnce ==
    [][/\ \A n \in NodeIds :
              (Dispatching(n) /\ CountedLoop(n)
                 /\ LoopTimes(nodes[n].param[1], vars).ok)
                  => IF LoopTimes(nodes[n].param[1], vars).n > 0
                     THEN frames' = frames \o
                              BodyFrames("loop", n,
                                  LoopTimes(nodes[n].param[1], vars).n - 1)
                     ELSE frames' = frames /\ ret' = RNone /\ trace' = trace
       /\ IterationEnded
              => IF Top.left = 0
                 THEN frames' = Pop /\ ret' = RNone
                 ELSE frames' = Pop \o BodyFrames("loop", Top.node,
                                                  Top.left - 1)]_all_vars

\* the last iteration of a loop counted by a variable has ended, and the
\* body assigns that variable
C11_Witness ==
    /\ IterationEnded
    /\ Top.left = 0
    /\ Has(vars, nodes[Top.node].param[1])
    /\ \E j \in 1..Len(lists[nodes[Top.node].children]) :
           LET b == lists[nodes[Top.node].children][j]
           IN  /\ nodes[b].type = "stmt"
               /\ CmdOf(b) = "math"
               /\ assign_match(StmtArgs(stmt_match(nodes[b].raw))).name
                      = nodes[Top.node].param[1]

\* arm j of the conditional is not taken: its condition evaluates, to a
\* falsy value
ArmFalsy(parts, j, vs) ==
    /\ nodes[parts[j]].kind # "else"
    /\ eval_cond(nodes[parts[j]].cond[1], vs).k = "ok"
    /\ ~Truthy(eval_cond(nodes[parts[j]].cond[1], vs).v)
\* arm j is the first arm taken, the arms before it evaluating falsy
SelectedArm(parts, j, vs) ==
    /\ ArmTaken(parts, j, vs)
    /\ \A k \in 1..(j - 1) : ArmFalsy(parts, k, vs)
\* the conditional on top of the stack has run the body of an arm
ArmEnded ==
    /\ Running
    /\ frames # << >>
    /\ Top.f = "if"
    /\ ret.k \in ListResults

(***************************************************************************)
(* C12: an execution of a Conditional runs the body of the first arm whose *)
(* condition is truthy (or of the else arm when it is reached) whatever    *)
(* the conditions of the later arms are, raising no error; it runs no body *)
(* when every arm evaluates falsy; and when the body of the arm ends the   *)
(* Conditional returns without trying another arm.                         *)
(***************************************************************************)
C12_FirstTruthyArmOnly ==
    [][/\ \A n \in NodeIds :
              (Dispatching(n) /\ nodes[n].type = "if")
                  => /\ \A j \in 1..Len(nodes[n].parts) :
                            SelectedArm(nodes[n].parts, j, vars)
                                => /\ pc' = "run"
                                   /\ frames' = frames \o
                                          <<Frame("if", n, 0, 0, 0),
                                            Frame("list", 0,
                                                nodes[nodes[n].parts[j]].children,
                                                0, 0)>>
                     /\ (\A j \in 1..Len(nodes[n].parts) :
                             ArmFalsy(nodes[n].parts, j, vars))
                            => pc' = "run" /\ frames' = frames /\ ret' = RNone
       /\ ArmEnded => frames' = Pop /\ trace' = trace /\ vars' = vars]_all_vars

\* the body of the second arm has run to its end, and a later arm has a
\* condition that does not evaluate
C12_Witness ==
    /\ ArmEnded
    /\ ret.k = "done"
    /\ Len(trace) < MaxTrace
    /\ trace # << >>
    /\ Len(nodes[Top.node].parts) > 2
    /\ nodes[trace[Len(trace)].node].parent
           = nodes[nodes[Top.node].parts[2]].children
    /\ \E j \in 3..Len(nodes[Top.node].parts) :
           /\ nodes[nodes[Top.node].parts[j]].kind # "else"
           /\ eval_cond(nodes[nodes[Top.node].parts[j]].cond[1], vars).k = "err"

\* the label nodes of the tree in the order a pre-order walk visits them:
\* a node, its children, then the bodies of its arms
RECURSIVE LabelsOfList(_, _, _), LabelsOfNode(_, _), LabelsOfParts(_, _, _)
LabelsOfList(lst, k, acc) ==
    IF k > Len(lists[lst]) THEN acc
    ELSE LabelsOfList(lst, k + 1, LabelsOfNode(lists[lst][k], acc))
LabelsOfNode(n, acc) ==
    LET a1 == IF nodes[n].type = "label" THEN Append(acc, n) ELSE acc
        a2 == IF nodes[n].children # 0
              THEN LabelsOfList(nodes[n].children, 1, a1) ELSE a1
    IN  IF nodes[n].type = "if" THEN LabelsOfParts(nodes[n].parts, 1, a2)
        ELSE a2
LabelsOfParts(parts, j, acc) ==
    IF j > Len(parts) THEN acc
    ELSE LabelsOfParts(parts, j + 1,
                       LabelsOfList(nodes[parts[j]].children, 1, acc))
\* the definition in the sequence that is visited last among those of its
\* name
LastVisited(seq, j) ==
    \A k \in (j + 1)..Len(seq) : nodes[seq[k]].name # nodes[seq[j]].name
Constructed == pc # "parse"

(***************************************************************************)
(* C13: after construction the label table holds, for every label name of  *)
(* the tree, the list of the definition visited last in pre-order and the  *)
(* index of the node after that definition.                                *)
(***************************************************************************)
C13_LastDefinitionIndexed ==
    Constructed =>
        LET seq == LabelsOfList(1, 1, << >>)
        IN  /\ DOMAIN labels = {nodes[seq[j]].name : j \in 1..Len(seq)}
            /\ \A j \in 1..Len(seq) :
                   LastVisited(seq, j)
                       => labels[nodes[seq[j]].name]
                              = <<nodes[seq[j]].parent,
                                  PosIn(nodes[seq[j]].parent, seq[j])>>

(***************************************************************************)
(* C14: from the end of construction on, no step of run(), run_stmt_list() *)
(* or run_node() changes the label table or the program tree.              *)
(***************************************************************************)
C14_TableAndTreeFrozen ==
    [][Constructed
           => /\ labels' = labels
              /\ nodes' = nodes
              /\ lists' = lists]_all_vars

\* a run that has set a variable, counted a step and jumped to a label of
\* a nested list is over
C14_Witness ==
    /\ pc = "done"
    /\ vars # << >>
    /\ steps > 0
    /\ cur_list # 1
    /\ labels # << >>

\* lines 265-331: the command words run_node knows
Commands ==
    {"text", "echo", "set", "math", "clear", "goto", "pause", "exit", "color"}
\* the text of statement node n is one of the recognized commands
Recognized(n) ==
    /\ stmt_match(nodes[n].raw).m
    /\ CmdOf(n) \in Commands
\* the step reports an unknown command for node n and goes on
Diagnosed(n) ==
    /\ pc' = "run"
    /\ vars' = vars
    /\ ret' = RNone
    /\ trace # trace' => trace'[Len(trace')].eff = "diagnostic"
    /\ Len(trace) < MaxTrace => /\ trace' # trace
                                /\ trace'[Len(trace')].node = n

(***************************************************************************)
(* C15: executing a Statement whose text is not one of the recognized     *)
(* commands, the text that fits neither `cmd(args)` nor `cmd rest`         *)
(* included, emits an unknown-command diagnostic, leaves the variable      *)
(* store unchanged and yields Continue.                                    *)
(***************************************************************************)
C15_UnrecognizedDiagnosed ==
    [][\A n \in NodeIds :
          (Dispatching(n) /\ nodes[n].type = "stmt" /\ ~Recognized(n))
              => Diagnosed(n)]_all_vars

\* the literal standing for a stored value according to its kind: a text
\* value as a quoted literal, a number as its numeral
LiteralOf(v) == IF v.t = "str" THEN PyRepr(v.s) ELSE PyStr(v)
\* statement node n is a `math` statement with a well-formed assignment
IsMath(n) ==
    /\ nodes[n].type = "stmt"
    /\ stmt_match(nodes[n].raw).m
    /\ CmdOf(n) = "math"
    /\ assign_match(StmtArgs(stmt_match(nodes[n].raw))).m
MathExpr(n) == assign_match(StmtArgs(stmt_match(nodes[n].raw))).val

(***************************************************************************)
(* C16: when a `math` statement is evaluated, every variable of the store  *)
(* that its expression names is substituted by the literal of its kind (a  *)
(* text value as a quoted literal, also when it looks like a number), and  *)
(* the evaluator of conditions substitutes the same literal for it.        *)
(***************************************************************************)
C16_SameLiteralByKind ==
    [][\A n \in NodeIds :
          (Dispatching(n) /\ IsMath(n))
              => \A name \in DOMAIN vars :
                     ContainsWord(MathExpr(n), name)
                         => /\ repl_var(name, vars) = LiteralOf(vars[name])
                            /\ rv(name, vars) = repl_var(name, vars)]_all_vars

\* a loop or a conditional dispatched by run() is running its body: the
\* statements of that body are at nesting depth one
DepthOne ==
    /\ Running
    /\ Len(frames) = 2
    /\ frames[1].f \in {"loop", "if"}
    /\ frames[2].f = "list"
\* a goto statement of that body has named a defined label
DepthOneGoto ==
    /\ DepthOne
    /\ ret.k = "goto"
    /\ ret.label # None
    /\ Has(labels, ret.label[1])
\* the body has returned the jump to the loop or conditional run() called
DepthOneJump ==
    /\ Running
    /\ Len(frames) = 1
    /\ frames[1].f \in {"loop", "if"}
    /\ ret.k = "jump"
\* the position after a definition of the label named
AfterLabel(name, lst, i) ==
    \E n \in LabelNodes(name) : lst = nodes[n].parent /\ i = PosIn(lst, n)

(***************************************************************************)
(* C17: a goto to a defined label executed directly in the body of a loop  *)
(* or conditional arm that run() dispatched ends that body at once, the    *)
(* loop starts no further iteration and runs no other node of its body,    *)
(* and run() continues at the node immediately after the label.            *)
(***************************************************************************)
C17_DepthOneGotoLeavesLoop ==
    [][/\ DepthOneGoto
           => /\ frames' = <<frames[1]>>
              /\ ret'.k = "jump"
              /\ AfterLabel(ret.label[1], ret'.lst, ret'.idx)
              /\ pc' = "run" /\ trace' = trace /\ vars' = vars
       /\ DepthOneJump
           => /\ frames' = << >>
              /\ ret' = RGotoJump(ret.lst, ret.idx)
              /\ pc' = "run" /\ trace' = trace /\ vars' = vars
       /\ (CarriedJump /\ frames = << >>)
           => /\ cur_list' = ret.lst
              /\ idx' = ret.idx
              /\ ret' = NoRet
              /\ pc' = "run" /\ trace' = trace /\ vars' = vars]_all_vars

\* a counted loop of the root list with iterations left is handed the jump
\* of a goto that is not the last node of its body
C17_Witness ==
    /\ DepthOneJump
    /\ cur_list = 1
    /\ frames[1].f = "loop"
    /\ frames[1].left > 0
    /\ trace # << >>
    /\ Len(trace) < MaxTrace
    /\ IsGotoNode(trace[Len(trace)].node)
    /\ nodes[trace[Len(trace)].node].parent = nodes[frames[1].node].children
    /\ PosIn(nodes[frames[1].node].children, trace[Len(trace)].node)
           < Len(lists[nodes[frames[1].node].children])

\* run_node has returned to run()
TopReturned ==
    /\ Running
    /\ frames = << >>
    /\ ret.k \in NodeResults

(***************************************************************************)
(* C18: run() starts its step counter at 0 and adds one to it for each     *)
(* node it dispatched that did not result in a jump; a dispatch that jumps *)
(* leaves the counter as it is and no other step changes it; the           *)
(* step-limit error is raised exactly by the increment that takes the      *)
(* counter above call_stack_limit, so a cycle of the root list that        *)
(* passes through a node that does not jump ends with that error.          *)
(***************************************************************************)
C18_StepsCountNonJumping ==
    [][/\ pc = "ready" => steps' = 0
       /\ (TopReturned /\ ret.k = "goto")
              => steps' = steps /\ pc' # "error: step limit"
       /\ (TopReturned /\ ret.k # "goto")
              => /\ steps' = steps + 1
                 /\ pc' = IF steps' > call_stack_limit
                          THEN "error: step limit" ELSE "run"
       /\ (Running /\ ~TopReturned)
              => steps' = steps /\ pc' # "error: step limit"
       /\ steps <= call_stack_limit]_all_vars

\* the cycle `L():` / `text "a"` / `goto L` has been stopped by the step
\* limit, the counter having passed the ceiling by one
C18_Witness ==
    /\ pc = "error: step limit"
    /\ steps = call_stack_limit + 1
    /\ cur_list = 1
    /\ \E n \in NodeIds :
           /\ IsGotoNode(n)
           /\ nodes[n].parent = 1
           /\ Has(labels, GotoTarget(n))
           /\ labels[GotoTarget(n)][1] = 1
           /\ labels[GotoTarget(n)][2] < PosIn(1, n)

\* run() is at a position of a list other than the root list, which only a
\* jump to a label of a loop body or arm body brings about
InJumpedBody ==
    /\ Running
    /\ frames = << >>
    /\ cur_list # 1

(***************************************************************************)
(* C19: after a jump into the body of a loop or of a conditional arm,      *)
(* run() dispatches the nodes of that body list one after the other from   *)
(* the target index, and at the end of that list the whole run ends: no    *)
(* further iteration of the enclosing loop is started and no node after    *)
(* the enclosing construct is executed.                                    *)
(***************************************************************************)
C19_RunEndsWithJumpedBody ==
    [][/\ (InJumpedBody /\ ret = NoRet)
              => IF idx >= Len(lists[cur_list])
                 THEN /\ pc' = "done"
                      /\ frames' = << >>
                      /\ trace' = trace
                      /\ vars' = vars
                 ELSE /\ trace' # trace
                             => trace'[Len(trace')].node = lists[cur_list][idx + 1]
                      /\ frames' # << >>
                             => frames'[1].node = lists[cur_list][idx + 1]
       /\ (InJumpedBody /\ ret.k \in NodeResults /\ ret.k # "goto")
              => /\ cur_list' = cur_list
                 /\ idx' = idx + 1
                 /\ frames' = << >>]_all_vars

\* the run is over at the end of the body of a counted loop of the root
\* list, which it entered by a jump; the last statement executed is of that
\* body and a node follows the loop in the root list
C19_Witness ==
    /\ pc = "done"
    /\ cur_list # 1
    /\ idx = Len(lists[cur_list])
    /\ trace # << >>
    /\ nodes[trace[Len(trace)].node].parent = cur_list
    /\ \E n \in NodeIds :
           /\ CountedLoop(n)
           /\ nodes[n].children = cur_list
           /\ nodes[n].parent = 1
           /\ PosIn(1, n) < Len(lists[1])

(***************************************************************************)
(* C20: no node execution yields ReturnToCaller: run_node never returns    *)
(* {action: return_to_caller} and run_stmt_list never returns ("return",). *)
(***************************************************************************)
C20_NoReturnToCaller == ret.k \notin {"return_to_caller", "return"}

\* a statement of the second iteration of a loop body has been executed
\* and run_node has returned for it to the run_stmt_list of the body
C20_Witness ==
    /\ Running
    /\ Len(frames) >= 2
    /\ Top.f = "list"
    /\ frames[Len(frames) - 1].f = "loop"
    /\ frames[Len(frames) - 1].left = 0
    /\ ret.k \in NodeResults
    /\ trace # << >>
    /\ nodes[trace[Len(trace)].node].parent = Top.lst

====
